---- MODULE Spec2Model ----
(***************************************************************************)
(* Inventory transaction engine of the point-of-sale backend: createSale,  *)
(* cancelSale, createPurchase, updatePurchase (with delivery),             *)
(* cancelPurchase, updateSale, createStockAdjustment, updateProduct and     *)
(* deleteProduct, as concurrent request handlers over one MongoDB store.   *)
(*                                                                         *)
(* Each handler is cut at its awaits: one action per database operation,   *)
(* the synchronous JavaScript between two awaits being part of the action  *)
(* that follows the first.  The store is modelled as the driver and the    *)
(* server behave for the calls the handlers make:                          *)
(*  - a read issued without the session (Model.findById(id)) runs outside  *)
(*    the transaction and returns the last committed document, also while  *)
(*    the caller's own transaction holds an uncommitted write to it;       *)
(*  - doc.save({ session }) sends $set of the modified paths inside the    *)
(*    transaction; the write is buffered until commitTransaction;          *)
(*  - the transaction's snapshot is taken by its first operation; a write  *)
(*    to a document that another open transaction has written, or that     *)
(*    was committed after the snapshot, fails with WriteConflict;          *)
(*  - a write outside any transaction waits for an open transaction that   *)
(*    has written the same document.                                       *)
(***************************************************************************)
EXTENDS Integers, Sequences, FiniteSets, TLC

\* ---------------------------------------------------------------- bounds
Products == {"p1", "p2"}
Slots == {1, 2}
\* requests issued in one behaviour
MaxReq == 2
\* largest quantity of one line item
MaxQty == 2
\* most line items in one request body
MaxItems == 2
\* quantity-on-hand of every product in the initial catalog
InitQty == 2

VARIABLES
  product,      \* Products collection: committed quantity and isActive
  sales,        \* Sales collection, in commit order
  purchases,    \* Purchases collection, in creation order
  adjustments,  \* StockAdjustments collection
  stockLedger,  \* stock ledger / Product.stockHistory entries
  req,          \* per connection slot: the request being handled
  last,         \* the response most recently sent
  started,      \* number of requests issued so far
  calc          \* the request whose monetary fields are being derived

vars == <<product, sales, purchases, adjustments, stockLedger, req, last, started, calc>>

\* ------------------------------------------------------------ request data
\* quantity 0 stands for a line item whose quantity is missing or zero
\* (!item.quantity)
Item == [product : Products, quantity : 0..MaxQty]

\* The line items of a request body are drawn when the handler's loop reaches
\* them (the handler reads items[i] only then), and the body ends after any
\* item from the first to the MaxItems-th: the reachable states are those of
\* drawing the whole list when the request arrives.  req[r].items is the part
\* of the body read so far.
MoreItems(items) == IF Len(items) < MaxItems THEN {TRUE, FALSE} ELSE {FALSE}

NoWrites == [p \in Products |-> -1]
Unknown == [p \in Products |-> -1]

\* kind, pc: the handler and its position; id: the document of req.params;
\* items: the line items being processed; i: the loop index; readQty: the
\* quantity of the product document findById returned; status: the status
\* of the document read at the start; upd: updateData; invoice: the
\* generated number; tx: the session's transaction state; snap: the
\* transaction has its snapshot; wq, wsale: its buffered writes (product
\* quantities, the sale document); stale, staleSales: documents committed by
\* others since the snapshot; error: the error being thrown.
\* pre and disturbed are history: the committed quantities when the
\* createSale arrived, and the products whose quantity another operation has
\* committed since.
IdleReq ==
  [kind |-> "idle", pc |-> "idle", error |-> "",
   items |-> <<>>, id |-> 0, status |-> "", upd |-> "", hasItems |-> FALSE,
   i |-> 0, readQty |-> 0, invoice |-> 0,
   tx |-> "none", snap |-> FALSE, wq |-> NoWrites, wsale |-> 0,
   stale |-> {}, staleSales |-> {}, pre |-> Unknown, disturbed |-> {}]

NoResponse ==
  [slot |-> 0, kind |-> "", result |-> "", error |-> "", id |-> 0, tx |-> "none",
   items |-> 0]

\* the response of request r: res.status(2xx).json(...) or the error handed
\* to the error middleware, with the final state of r's transaction and the
\* number of line items the handler had accepted
Response(r, result, error, id, tx) ==
  [slot |-> r, kind |-> req[r].kind, result |-> result, error |-> error,
   id |-> id, tx |-> tx, items |-> Len(req[r].items)]

\* A request arrives on the lowest connection slot that handles none.
Free(r) ==
  /\ req[r].pc = "idle"
  /\ \A o \in Slots : o < r => req[o].pc # "idle"
  /\ started < MaxReq

Quantities == [p \in Products |-> product[p].quantity]

\* ------------------------------------------------------------- the store
\* A write to product p inside r's transaction conflicts.
ProductWriteConflict(r, p) ==
  \/ req[r].snap /\ p \in req[r].stale
  \/ \E o \in Slots \ {r} : req[o].tx = "active" /\ req[o].wq[p] # -1

\* A write to sale document id inside r's transaction conflicts.
SaleWriteConflict(r, id) ==
  \/ req[r].snap /\ id \in req[r].staleSales
  \/ \E o \in Slots \ {r} : req[o].tx = "active" /\ req[o].wsale = id

\* No open transaction holds an uncommitted write to product p.
ProductUnlocked(p) == \A o \in Slots : ~(req[o].tx = "active" /\ req[o].wq[p] # -1)

\* productSchema.quantity: { min: 0 }, run by save()
QuantityValid(q) == q >= 0

Written(r) == {p \in Products : req[r].wq[p] # -1}

\* The requests after r has finished a step that committed writes to the
\* products P (Q of them to the quantity) and the sale documents S, r itself
\* becoming next: every open transaction that has its snapshot sees P and S
\* as written after it.
After(r, next, P, Q, S) ==
  [o \in Slots |->
     IF o = r THEN next
     ELSE [req[o] EXCEPT
             !.stale = IF req[o].tx = "active" /\ req[o].snap THEN @ \cup P ELSE @,
             !.staleSales = IF req[o].tx = "active" /\ req[o].snap THEN @ \cup S ELSE @,
             !.disturbed = IF req[o].kind = "createSale" THEN @ \cup Q ELSE @]]

\* History kept with each sale: arrival, the committed quantities of its
\* products when its createSale arrived (-1: not known, or not a product of
\* the sale); disturbed, the products whose quantity an operation other than
\* its own createSale and cancelSale has committed since; restocked, how many
\* commits of a cancelSale of it have raised a committed quantity.
\* Touched: the sales after an operation other than the cancellation of sale
\* `own` has committed the quantities of the products Q.
Touched(Q, own) ==
  [k \in 1..Len(sales) |->
     IF k = own \/ sales[k].arrival = Unknown THEN sales[k]
     ELSE [sales[k] EXCEPT !.disturbed = @ \cup (Q \cap {sales[k].items[j].product :
                                                          j \in 1..Len(sales[k].items)})]]

\* session.commitTransaction(): the buffered product writes become visible.
CommitProducts(r) ==
  [p \in Products |->
     IF req[r].wq[p] # -1 THEN [product[p] EXCEPT !.quantity = req[r].wq[p]]
     ELSE product[p]]

\* An abort that applies the buffered writes (the fault C3 must detect).
AbortKeepsWrites(r) == CommitProducts(r)

\* session.abortTransaction(): the buffered writes are dropped.
AbortProducts(r) == product

\* ------------------------------------------------------------------ money
\* The monetary fields of an order are derived from the request body alone
\* (and, for an update, from the stored document), so the derivation is
\* modelled on its own: calc holds one request (op, body, stored), and one
\* step of its handler computes the document that is stored (doc) or the
\* error thrown.  The stock is taken to be sufficient and the products
\* active.  In a body, taxRate, discountAmount, shippingCost and paidAmount
\* 0 stand for the field being 0 or missing where the code reads them as
\* `x || 0`; has names the keys an update body carries; paymentStatus ""
\* stands for no paymentStatus in the body.
NoDoc == [none |-> TRUE]

NoCalc == [op |-> "", body |-> NoDoc, stored |-> NoDoc, pc |-> "", doc |-> NoDoc,
           error |-> ""]

\* sale lines 117 and purchase lines 123, 281: !item.quantity || !item.unitPrice
\* (the body's product is taken to be present)
ItemFieldsMissing(it) == it.quantity = 0 \/ it.unitPrice = 0

\* sale lines 131-139, purchase lines 133-141: validatedItems.push({...})
ValidatedItems(items) ==
  [k \in 1..Len(items) |->
     [quantity |-> items[k].quantity, unitPrice |-> items[k].unitPrice,
      total |-> items[k].quantity * items[k].unitPrice]]

RECURSIVE SubTotal(_)
\* sale lines 131-132, purchase lines 133-134: subTotal += itemTotal
SubTotal(items) ==
  IF Len(items) = 0 THEN 0
  ELSE items[1].quantity * items[1].unitPrice + SubTotal(Tail(items))

\* subTotal * taxRate / 100 (sale line 147); the amounts of the model are
\* multiples of 10, so the quotient is exact
TaxAmount(subTotal, taxRate) == (subTotal * taxRate) \div 100

\* createSale with `>` for `>=` in the comparison of paidAmount with
\* totalAmount and the status taken from the payment alone (the fault C14
\* must detect).
SaleMoneyStrict(items, taxRate, discountAmount, paidAmount, paymentStatus) ==
  LET subTotal == SubTotal(items)
      taxAmount == TaxAmount(subTotal, taxRate)
      totalAmount == subTotal + taxAmount - discountAmount
      covered == paidAmount > totalAmount
  IN [items |-> ValidatedItems(items), subTotal |-> subTotal, taxRate |-> taxRate,
      taxAmount |-> taxAmount, discountAmount |-> discountAmount,
      totalAmount |-> totalAmount,
      paymentStatus |-> IF covered THEN "paid"
                        ELSE IF paidAmount > 0 THEN "partial"
                        ELSE IF paymentStatus = "" THEN "pending" ELSE paymentStatus,
      paidAmount |-> paidAmount,
      changeAmount |-> IF covered THEN paidAmount - totalAmount ELSE 0,
      dueAmount |-> IF covered THEN 0 ELSE totalAmount - paidAmount]

\* sale lines 145-196: the fields of the document handed to Sale.create
SaleMoney(items, taxRate, discountAmount, paidAmount, paymentStatus) ==
  LET subTotal == SubTotal(items)
      taxAmount == TaxAmount(subTotal, taxRate)
      totalAmount == subTotal + taxAmount - discountAmount
      dueAmount == IF paidAmount >= totalAmount THEN 0 ELSE totalAmount - paidAmount
      changeAmount == IF paidAmount >= totalAmount THEN paidAmount - totalAmount ELSE 0
  IN [items |-> ValidatedItems(items), subTotal |-> subTotal, taxRate |-> taxRate,
      taxAmount |-> taxAmount, discountAmount |-> discountAmount,
      totalAmount |-> totalAmount,
      paymentStatus |-> IF dueAmount <= 0 THEN "paid"
                        ELSE IF paidAmount > 0 THEN "partial"
                        ELSE IF paymentStatus = "" THEN "pending" ELSE paymentStatus,
      paidAmount |-> paidAmount, changeAmount |-> changeAmount,
      dueAmount |-> dueAmount]

\* paymentStatus enum of the order schemas (purchase model lines 81-85)
PaymentStatuses == {"pending", "partial", "paid", "cancelled"}

\* the validators of the line items of an order document (purchase model
\* lines 27-50): quantity min 1, unitPrice min 0, total min 0
ItemsValid(items) ==
  \A k \in 1..Len(items) :
    items[k].quantity >= 1 /\ items[k].unitPrice >= 0 /\ items[k].total >= 0

\* The validators of the Sale schema.  The Sale model is not among the
\* sources; it is taken to have the shape of the Purchase schema (the spec
\* describes the two orders as structurally identical), with changeAmount
\* in place of shippingCost.
SaleSchemaValid(doc) ==
  /\ ItemsValid(doc.items)
  /\ doc.subTotal >= 0 /\ doc.taxRate >= 0 /\ doc.taxAmount >= 0
  /\ doc.discountAmount >= 0 /\ doc.totalAmount >= 0
  /\ doc.paidAmount >= 0 /\ doc.changeAmount >= 0 /\ doc.dueAmount >= 0
  /\ doc.paymentStatus \in PaymentStatuses

\* purchase lines 144-176: the fields of the document handed to
\* Purchase.create
PurchaseMoney(items, taxRate, discountAmount, shippingCost, paidAmount, paymentStatus) ==
  LET subTotal == SubTotal(items)
      taxAmount == TaxAmount(subTotal, taxRate)
      totalAmount == subTotal + taxAmount + shippingCost - discountAmount
  IN [items |-> ValidatedItems(items), subTotal |-> subTotal, taxRate |-> taxRate,
      taxAmount |-> taxAmount, discountAmount |-> discountAmount,
      shippingCost |-> shippingCost, totalAmount |-> totalAmount,
      paymentStatus |-> IF paymentStatus = "" THEN "pending" ELSE paymentStatus,
      paidAmount |-> paidAmount, dueAmount |-> totalAmount - paidAmount]

\* purchaseSchema with min: 0 on the paths a request body carries only, the
\* derived totalAmount and dueAmount unchecked (the fault C16 must detect).
PurchaseInputsValid(doc) ==
  /\ doc.subTotal >= 0 /\ doc.taxRate >= 0 /\ doc.taxAmount >= 0
  /\ doc.discountAmount >= 0 /\ doc.shippingCost >= 0
  /\ doc.paidAmount >= 0
  /\ doc.paymentStatus \in PaymentStatuses

\* the min validators of the monetary paths of purchaseSchema (purchase
\* model lines 51-100) and the paymentStatus enum
PurchaseMoneyValid(doc) ==
  /\ doc.subTotal >= 0 /\ doc.taxRate >= 0 /\ doc.taxAmount >= 0
  /\ doc.discountAmount >= 0 /\ doc.shippingCost >= 0 /\ doc.totalAmount >= 0
  /\ doc.paidAmount >= 0 /\ doc.dueAmount >= 0
  /\ doc.paymentStatus \in PaymentStatuses

\* the validators of purchaseSchema run by Purchase.create
PurchaseSchemaValid(doc) == ItemsValid(doc.items) /\ PurchaseMoneyValid(doc)

\* the values the bodies of the requests are drawn from
MoneyItem == [quantity : -1..MaxQty, unitPrice : {-10, 0, 50}]
ItemLists == UNION {[1..n -> MoneyItem] : n \in 1..MaxItems}
TaxRates == {-10, 0, 10}
Discounts == {-5, 0, 5, 200}
ShippingCosts == {-5, 0, 5}
PaidAmounts == {-5, 0, 50, 105, 200}

\* the bodies of POST /api/sales (sale lines 87-96)
SaleBodies ==
  [items : ItemLists, taxRate : TaxRates, discountAmount : Discounts,
   shippingCost : {0}, paidAmount : PaidAmounts, paymentStatus : {"", "paid"},
   has : {{}}]

\* the bodies of POST /api/purchases (purchase lines 93-105)
PurchaseBodies ==
  [items : ItemLists, taxRate : TaxRates, discountAmount : Discounts,
   shippingCost : ShippingCosts, paidAmount : PaidAmounts,
   paymentStatus : {"", "paid"}, has : {{}}]

CalcRequest(op, body, stored) ==
  [op |-> op, body |-> body, stored |-> stored, pc |-> "request", doc |-> NoDoc,
   error |-> ""]

\* the outcome of a handler's derivation: the error thrown, or the document
\* stored
CalcDone(error, doc) ==
  [calc EXCEPT !.pc = "done", !.error = error,
               !.doc = IF error = "" THEN doc ELSE NoDoc]

\* sale lines 116-196: the item checks, the totals and Sale.create
MoneyCreateSale ==
  /\ calc.op = "createSale" /\ calc.pc = "request"
  /\ LET b == calc.body
         d == SaleMoney(b.items, b.taxRate, b.discountAmount, b.paidAmount,
                        b.paymentStatus)
     IN calc' = IF \E k \in 1..Len(b.items) : ItemFieldsMissing(b.items[k])
                THEN CalcDone("400 item fields", d)
                ELSE IF ~SaleSchemaValid(d) THEN CalcDone("ValidationError", d)
                ELSE CalcDone("", d)
  /\ UNCHANGED <<product, sales, purchases, adjustments, stockLedger, req, last, started>>

\* purchase lines 122-176: the item checks, the totals and Purchase.create
MoneyCreatePurchase ==
  /\ calc.op = "createPurchase" /\ calc.pc = "request"
  /\ LET b == calc.body
         d == PurchaseMoney(b.items, b.taxRate, b.discountAmount, b.shippingCost,
                            b.paidAmount, b.paymentStatus)
     IN calc' = IF \E k \in 1..Len(b.items) : ItemFieldsMissing(b.items[k])
                THEN CalcDone("400 item fields", d)
                ELSE IF ~PurchaseSchemaValid(d) THEN CalcDone("ValidationError", d)
                ELSE CalcDone("", d)
  /\ UNCHANGED <<product, sales, purchases, adjustments, stockLedger, req, last, started>>

\* the keys of an update body that make updatePurchase recalculate
\* (purchase lines 229-233)
RecalcKeys == {"items", "taxRate", "discountAmount", "shippingCost", "paidAmount"}

\* purchase lines 226-234: needsRecalculation
NeedsRecalculation(body) == body.has \cap RecalcKeys # {}

\* body[key] when the body carries the key, else the stored value
\* (purchase lines 311, 315-316, 322: x !== undefined ? x : purchase.x)
Given(body, key, stored) == IF key \in body.has THEN body[key] ELSE stored

\* purchase lines 273-340: the purchase document after $set of updateData,
\* recalculated when needsRecalculation
UpdatePurchaseMoney(stored, body) ==
  IF ~NeedsRecalculation(body)
  THEN [stored EXCEPT !.paymentStatus = Given(body, "paymentStatus", @)]
  ELSE LET items == IF "items" \in body.has THEN ValidatedItems(body.items)
                    ELSE stored.items
           subTotal == IF "items" \in body.has THEN SubTotal(body.items)
                       ELSE stored.subTotal
           taxRate == Given(body, "taxRate", stored.taxRate)
           taxAmount == TaxAmount(subTotal, taxRate)
           discountAmount == Given(body, "discountAmount", stored.discountAmount)
           shippingCost == Given(body, "shippingCost", stored.shippingCost)
           totalAmount == subTotal + taxAmount + shippingCost - discountAmount
           paidAmount == Given(body, "paidAmount", stored.paidAmount)
           dueAmount == totalAmount - paidAmount
       IN [items |-> items, subTotal |-> subTotal, taxRate |-> taxRate,
           taxAmount |-> taxAmount, discountAmount |-> discountAmount,
           shippingCost |-> shippingCost, totalAmount |-> totalAmount,
           paymentStatus |-> IF dueAmount <= 0 THEN "paid"
                             ELSE IF paidAmount > 0 THEN "partial" ELSE "pending",
           paidAmount |-> paidAmount, dueAmount |-> dueAmount]

\* purchase documents an update finds stored: an order of 2 units at 50,
\* tax 10, discount 5, unpaid (total 105), and the same order paid in full
StoredPurchases ==
  {PurchaseMoney(<<[quantity |-> 2, unitPrice |-> 50]>>, 10, 5, 0, 0, ""),
   PurchaseMoney(<<[quantity |-> 2, unitPrice |-> 50]>>, 10, 5, 0, 105, "paid")}

\* a key the body does not carry has no value (written 0, or <<>> for items)
Optional(has, key, values, none) == IF key \in has THEN values ELSE {none}

\* the bodies of PATCH /api/purchases/:id (purchase line 212), with at most
\* one line item
PurchaseUpdateBodies ==
  UNION {[items : Optional(has, "items", [1..1 -> MoneyItem], <<>>),
          taxRate : Optional(has, "taxRate", TaxRates, 0),
          discountAmount : Optional(has, "discountAmount", Discounts, 0),
          shippingCost : Optional(has, "shippingCost", ShippingCosts, 0),
          paidAmount : Optional(has, "paidAmount", PaidAmounts, 0),
          paymentStatus : Optional(has, "paymentStatus", {"paid"}, ""),
          has : {has}] : has \in SUBSET (RecalcKeys \cup {"paymentStatus"})}

\* purchase lines 273-340: the item checks, the recalculation and
\* findByIdAndUpdate with runValidators.  The update validators check the
\* monetary paths that are set; whether they also check the elements of the
\* items array depends on the mongoose release (strict).
MoneyUpdatePurchase ==
  /\ calc.op = "updatePurchase" /\ calc.pc = "request"
  /\ \E strict \in BOOLEAN :
       LET b == calc.body
           d == UpdatePurchaseMoney(calc.stored, b)
       IN calc' = IF "items" \in b.has
                     /\ \E k \in 1..Len(b.items) : ItemFieldsMissing(b.items[k])
                  THEN CalcDone("400 item fields", d)
                  ELSE IF ~PurchaseMoneyValid(d) \/ (strict /\ ~ItemsValid(d.items))
                  THEN CalcDone("ValidationError", d)
                  ELSE CalcDone("", d)
  /\ UNCHANGED <<product, sales, purchases, adjustments, stockLedger, req, last, started>>

\* An updateSale whose recalculation leaves a paymentStatus sent with the
\* paidAmount as it is (the fault C30 must detect).
UpdateSaleMoneyKeepsStatus(stored, body) ==
  LET status == IF body.paidAmount >= stored.totalAmount THEN "paid"
                ELSE IF body.paidAmount > 0 THEN "partial" ELSE "pending"
      due == IF body.paidAmount >= stored.totalAmount THEN 0
             ELSE stored.totalAmount - body.paidAmount
      change == IF body.paidAmount >= stored.totalAmount
                THEN body.paidAmount - stored.totalAmount ELSE 0
  IN IF "paidAmount" \notin body.has
     THEN [stored EXCEPT !.paymentStatus = Given(body, "paymentStatus", @)]
     ELSE [stored EXCEPT !.paidAmount = body.paidAmount, !.dueAmount = due,
                         !.changeAmount = change,
                         !.paymentStatus = Given(body, "paymentStatus", status)]

\* sale lines 261-290: the sale document after $set of filteredUpdateData
UpdateSaleMoney(stored, body) ==
  IF "paidAmount" \notin body.has
  THEN [stored EXCEPT !.paymentStatus = Given(body, "paymentStatus", @)]
  ELSE IF body.paidAmount >= stored.totalAmount
  THEN [stored EXCEPT !.paidAmount = body.paidAmount, !.dueAmount = 0,
                      !.changeAmount = body.paidAmount - stored.totalAmount,
                      !.paymentStatus = "paid"]
  ELSE [stored EXCEPT !.paidAmount = body.paidAmount,
                      !.dueAmount = stored.totalAmount - body.paidAmount,
                      !.changeAmount = 0,
                      !.paymentStatus = IF body.paidAmount > 0 THEN "partial"
                                        ELSE "pending"]

\* the sale document an update finds stored: 2 units at 50, tax 10,
\* discount 5, unpaid (total 105)
StoredSales == {SaleMoney(<<[quantity |-> 2, unitPrice |-> 50]>>, 10, 5, 0, "")}

\* the bodies of PATCH /api/sales/:id (sale lines 247, 262), as far as the
\* allowed fields paidAmount and paymentStatus go
SaleUpdateBodies ==
  UNION {[items : {<<>>}, taxRate : {0}, discountAmount : {0}, shippingCost : {0},
          paidAmount : Optional(has, "paidAmount", PaidAmounts, 0),
          paymentStatus : Optional(has, "paymentStatus", {"paid"}, ""),
          has : {has}] : has \in SUBSET {"paidAmount", "paymentStatus"}}

\* sale lines 261-290: the recalculation and findByIdAndUpdate with
\* runValidators
MoneyUpdateSale ==
  /\ calc.op = "updateSale" /\ calc.pc = "request"
  /\ LET d == UpdateSaleMoney(calc.stored, calc.body)
     IN calc' = IF ~SaleSchemaValid(d) THEN CalcDone("ValidationError", d)
                ELSE CalcDone("", d)
  /\ UNCHANGED <<product, sales, purchases, adjustments, stockLedger, req, last, started>>

\* ---------------------------------------------------------------- Init
\* The store when the server starts holds the catalog and what earlier runs
\* left: no sale or one sale of one unit of p1 that is not cancelled (the
\* quantities before it are not known), no purchase or one pending purchase
\* of one unit of p1 that has not been received.
EarlierSales ==
  {<<>>,
   <<[invoice |-> 1, items |-> <<[product |-> "p1", quantity |-> 1]>>,
      paymentStatus |-> "pending", arrival |-> Unknown, disturbed |-> {},
      restocked |-> 0]>>}

EarlierPurchases ==
  {<<>>,
   <<[invoice |-> 1, items |-> <<[product |-> "p1", quantity |-> 1]>>,
      status |-> "pending", paymentStatus |-> "pending", received |-> 0,
      receivedItems |-> <<>>]>>}

Init ==
  /\ product = [p \in Products |-> [quantity |-> InitQty, isActive |-> TRUE]]
  /\ sales \in EarlierSales
  /\ purchases \in EarlierPurchases
  /\ adjustments = <<>>
  /\ stockLedger = <<>>
  /\ req = [r \in Slots |-> IdleReq]
  /\ last = NoResponse
  /\ started = 0
  /\ calc = NoCalc

\* -------------------------------------------------------------- createSale
\* lines 86-109: body validation, startSession, startTransaction
CreateSaleStart(r) ==
  /\ Free(r)
  /\ \E empty \in BOOLEAN :
       IF empty
       THEN /\ req' = [req EXCEPT ![r] = IdleReq]
            /\ last' = [Response(r, "error", "400 items required", 0, "none")
                          EXCEPT !.kind = "createSale"]
       ELSE /\ req' = [req EXCEPT ![r] =
                         [IdleReq EXCEPT !.kind = "createSale", !.pc = "find", !.i = 1,
                                         !.tx = "active", !.pre = Quantities]]
            /\ last' = last
  /\ started' = started + 1
  /\ UNCHANGED <<product, sales, purchases, adjustments, stockLedger, calc>>

\* The outcome of lines 117-129 for item it against the product document
\* read by Product.findById (committed state, no session).
SaleItemError(it) ==
  IF it.quantity = 0 THEN "400 item fields"
  ELSE IF ~product[it.product].isActive THEN "404 product"
  ELSE IF product[it.product].quantity < it.quantity THEN "400 not enough stock"
  ELSE ""

\* lines 116-139: one loop iteration up to the call of product.save
CreateSaleFind(r) ==
  /\ req[r].kind = "createSale" /\ req[r].pc = "find"
  /\ \E it \in Item :
       LET err == SaleItemError(it)
       IN req' = [req EXCEPT ![r] =
                    IF err # "" THEN [@ EXCEPT !.pc = "abort", !.error = err]
                    ELSE [@ EXCEPT !.pc = "save", !.items = Append(@, it),
                                   !.readQty = product[it.product].quantity]]
  /\ UNCHANGED <<product, sales, purchases, adjustments, stockLedger, calc, last, started>>

\* product.save({ session }) of quantity q for product p in r's transaction,
\* more telling whether the loop goes on: the request afterwards
ProductSave(r, p, q, more, nextpc) ==
  IF ~QuantityValid(q)
  THEN [req[r] EXCEPT !.pc = "abort", !.error = "ValidationError"]
  ELSE IF ProductWriteConflict(r, p)
  THEN [req[r] EXCEPT !.pc = "abort", !.error = "WriteConflict"]
  ELSE [req[r] EXCEPT !.snap = TRUE, !.wq[p] = q, !.i = @ + 1,
                      !.pc = IF more THEN "find" ELSE nextpc]

\* line 142: product.quantity -= item.quantity
SaleQuantity(read, qty) == read - qty

\* product.save() without the session: the write is committed at once, outside
\* the transaction (the fault C2 must detect).
CreateSaleSaveNoSession(r) ==
  /\ req[r].kind = "createSale" /\ req[r].pc = "save"
  /\ \E more \in MoreItems(req[r].items) :
       LET it == req[r].items[req[r].i]
           q == SaleQuantity(req[r].readQty, it.quantity)
       IN IF ~QuantityValid(q)
          THEN /\ req' = [req EXCEPT ![r].pc = "abort", ![r].error = "ValidationError"]
               /\ product' = product
          ELSE /\ req' = [req EXCEPT ![r].i = @ + 1,
                                     ![r].pc = IF more THEN "find" ELSE "invoice"]
               /\ product' = [product EXCEPT ![it.product].quantity = q]
  /\ UNCHANGED <<sales, purchases, adjustments, stockLedger, calc, last, started>>

\* lines 141-143: product.quantity -= item.quantity; product.save({ session })
CreateSaleSave(r) ==
  /\ req[r].kind = "createSale" /\ req[r].pc = "save"
  /\ \E more \in MoreItems(req[r].items) :
       LET it == req[r].items[req[r].i]
       IN req' = [req EXCEPT ![r] =
                    ProductSave(r, it.product, SaleQuantity(req[r].readQty, it.quantity),
                                more, "invoice")]
  /\ UNCHANGED <<product, sales, purchases, adjustments, stockLedger, calc, last, started>>

\* generateInvoiceNumber, lines 9-28: the sequence number after that of the
\* latest committed sale (the date part is the same all day and is left out)
NextSaleNumber == IF Len(sales) = 0 THEN 1 ELSE sales[Len(sales)].invoice + 1

\* line 176: await generateInvoiceNumber()
CreateSaleInvoice(r) ==
  /\ req[r].kind = "createSale" /\ req[r].pc = "invoice"
  /\ req' = [req EXCEPT ![r].invoice = NextSaleNumber, ![r].pc = "create"]
  /\ UNCHANGED <<product, sales, purchases, adjustments, stockLedger, calc, last, started>>

\* The unique index on Sale.invoiceNumber refuses the insert.
InvoiceTaken(r, n) ==
  \/ \E k \in 1..Len(sales) : sales[k].invoice = n
  \/ \E o \in Slots \ {r} :
       req[o].kind = "createSale" /\ req[o].tx = "active" /\ req[o].pc = "commit"
       /\ req[o].invoice = n

\* lines 179-196: Sale.create([...], { session })
CreateSaleCreate(r) ==
  /\ req[r].kind = "createSale" /\ req[r].pc = "create"
  /\ req' = [req EXCEPT ![r] =
               IF InvoiceTaken(r, req[r].invoice)
               THEN [@ EXCEPT !.pc = "abort", !.error = "duplicate invoiceNumber"]
               ELSE [@ EXCEPT !.pc = "commit"]]
  /\ UNCHANGED <<product, sales, purchases, adjustments, stockLedger, calc, last, started>>

ItemProducts(items) == {items[k].product : k \in 1..Len(items)}

\* the sale document of lines 179-196
SaleDoc(r) ==
  [invoice |-> req[r].invoice,
   items |-> req[r].items,
   paymentStatus |-> "pending",
   arrival |-> [p \in Products |->
                  IF p \in ItemProducts(req[r].items) THEN req[r].pre[p] ELSE -1],
   disturbed |-> req[r].disturbed \cap ItemProducts(req[r].items),
   restocked |-> 0]

\* lines 198-199: commitTransaction
CreateSaleCommit(r) ==
  /\ req[r].kind = "createSale" /\ req[r].pc = "commit"
  /\ product' = CommitProducts(r)
  /\ sales' = Append(Touched(Written(r), 0), SaleDoc(r))
  /\ req' = After(r, [req[r] EXCEPT !.pc = "populate", !.tx = "committed",
                                    !.wq = NoWrites, !.snap = FALSE,
                                    !.id = Len(sales) + 1],
                 Written(r), Written(r), {})
  /\ UNCHANGED <<purchases, adjustments, stockLedger, calc, last, started>>

\* the error of session.abortTransaction() on a transaction that has been
\* committed ("Cannot call abortTransaction after calling commitTransaction")
AbortAfterCommit == "abort after commit"

\* lines 201-220: Sale.findById(...).populate(...) of the sale for the
\* response, still inside the try block.  The read succeeds and the handler
\* answers 201, or it is rejected (the connection is lost, the operation
\* times out): the catch block then calls abortTransaction on the committed
\* transaction, whose error replaces the one caught, and finally ends the
\* session.
CreateSalePopulate(r) ==
  /\ req[r].kind = "createSale" /\ req[r].pc = "populate"
  /\ \E rejected \in BOOLEAN :
       last' = IF rejected
               THEN Response(r, "error", AbortAfterCommit, req[r].id, req[r].tx)
               ELSE Response(r, "ok", "", req[r].id, req[r].tx)
  /\ req' = [req EXCEPT ![r] = IdleReq]
  /\ UNCHANGED <<product, sales, purchases, adjustments, stockLedger, calc, started>>

\* -------------------------------------------------------------- cancelSale
SaleIds == 0..Len(sales)

\* lines 304-321: Sale.findById, the guards, startSession, startTransaction.
\* id 0 stands for an id no sale has.
CancelSaleStart(r) ==
  /\ Free(r)
  /\ \E id \in SaleIds :
       IF id = 0
       THEN /\ req' = [req EXCEPT ![r] = IdleReq]
            /\ last' = [Response(r, "error", "404 sale", id, "none")
                          EXCEPT !.kind = "cancelSale"]
       ELSE IF sales[id].paymentStatus = "cancelled"
       THEN /\ req' = [req EXCEPT ![r] = IdleReq]
            /\ last' = [Response(r, "error", "400 already cancelled", id, "none")
                          EXCEPT !.kind = "cancelSale"]
       ELSE /\ req' = [req EXCEPT ![r] =
                         [IdleReq EXCEPT !.kind = "cancelSale", !.pc = "find", !.i = 1,
                                         !.id = id, !.items = sales[id].items,
                                         !.status = sales[id].paymentStatus,
                                         !.tx = "active"]]
            /\ last' = last
  /\ started' = started + 1
  /\ UNCHANGED <<product, sales, purchases, adjustments, stockLedger, calc>>

\* line 326: Product.findById(item.product); products are never removed
\* (deleteProduct only clears isActive), so the document is always there
CancelSaleFind(r) ==
  /\ req[r].kind = "cancelSale" /\ req[r].pc = "find"
  /\ req' = [req EXCEPT ![r].readQty = product[req[r].items[req[r].i].product].quantity,
                        ![r].pc = "save"]
  /\ UNCHANGED <<product, sales, purchases, adjustments, stockLedger, calc, last, started>>

\* A cancellation that saves the quantity it read (the fault C4 must detect).
RestoreNothing(read, qty) == read

\* line 329: product.quantity += item.quantity
RestoreQuantity(read, qty) == read + qty

\* lines 329-330: product.quantity += item.quantity; product.save({ session })
CancelSaleSave(r) ==
  /\ req[r].kind = "cancelSale" /\ req[r].pc = "save"
  /\ LET it == req[r].items[req[r].i]
     IN req' = [req EXCEPT ![r] =
                  ProductSave(r, it.product, RestoreQuantity(req[r].readQty, it.quantity),
                              req[r].i < Len(req[r].items), "saveSale")]
  /\ UNCHANGED <<product, sales, purchases, adjustments, stockLedger, calc, last, started>>

\* lines 335-336: sale.paymentStatus = "cancelled"; sale.save({ session })
CancelSaleSaveSale(r) ==
  /\ req[r].kind = "cancelSale" /\ req[r].pc = "saveSale"
  /\ req' = [req EXCEPT ![r] =
               IF SaleWriteConflict(r, req[r].id)
               THEN [@ EXCEPT !.pc = "abort", !.error = "WriteConflict"]
               ELSE [@ EXCEPT !.snap = TRUE, !.wsale = req[r].id, !.pc = "commit"]]
  /\ UNCHANGED <<product, sales, purchases, adjustments, stockLedger, calc, last, started>>

\* lines 339-347: commitTransaction, then the response
CancelSaleCommit(r) ==
  /\ req[r].kind = "cancelSale" /\ req[r].pc = "commit"
  /\ product' = CommitProducts(r)
  /\ sales' = [Touched(Written(r), req[r].id) EXCEPT
                 ![req[r].wsale].paymentStatus = "cancelled",
                 ![req[r].wsale].restocked =
                    IF \E p \in Products :
                         CommitProducts(r)[p].quantity > product[p].quantity
                    THEN @ + 1 ELSE @]
  /\ req' = After(r, IdleReq, Written(r), Written(r), {req[r].wsale})
  /\ last' = Response(r, "ok", "", req[r].id, "committed")
  /\ UNCHANGED <<purchases, adjustments, stockLedger, calc, started>>

\* ----------------------------------------------------------- createPurchase
\* purchase lines 92-116: body validation and the supplier lookup; found is
\* the outcome of Supplier.findById for the supplier of the body
CreatePurchaseStart(r) ==
  /\ Free(r)
  /\ \E empty \in BOOLEAN, found \in BOOLEAN :
       IF empty \/ ~found
       THEN /\ req' = [req EXCEPT ![r] = IdleReq]
            /\ last' = [Response(r, "error",
                                 IF empty THEN "400 supplier and items required"
                                 ELSE "404 supplier", 0, "none")
                          EXCEPT !.kind = "createPurchase"]
       ELSE /\ req' = [req EXCEPT ![r] =
                         [IdleReq EXCEPT !.kind = "createPurchase", !.pc = "find",
                                         !.i = 1]]
            /\ last' = last
  /\ started' = started + 1
  /\ UNCHANGED <<product, sales, purchases, adjustments, stockLedger, calc>>

\* The outcome of purchase lines 123-131 (and 281-289) for item it against
\* the product document read by Product.findById.
PurchaseItemError(it) ==
  IF it.quantity = 0 THEN "400 item fields"
  ELSE IF ~product[it.product].isActive THEN "404 product"
  ELSE ""

\* purchase lines 122-142: one loop iteration
CreatePurchaseFind(r) ==
  /\ req[r].kind = "createPurchase" /\ req[r].pc = "find"
  /\ \E it \in Item :
       LET err == PurchaseItemError(it)
       IN IF err # ""
          THEN /\ req' = [req EXCEPT ![r] = IdleReq]
               /\ last' = Response(r, "error", err, 0, "none")
          ELSE /\ \E more \in MoreItems(Append(req[r].items, it)) :
                    req' = [req EXCEPT ![r].items = Append(@, it), ![r].i = @ + 1,
                                       ![r].pc = IF more THEN "find" ELSE "invoice"]
               /\ last' = last
  /\ UNCHANGED <<product, sales, purchases, adjustments, stockLedger, calc, started>>

\* generateInvoiceNumber, purchase lines 10-29
NextPurchaseNumber ==
  IF Len(purchases) = 0 THEN 1 ELSE purchases[Len(purchases)].invoice + 1

\* purchase line 154: await generateInvoiceNumber()
CreatePurchaseInvoice(r) ==
  /\ req[r].kind = "createPurchase" /\ req[r].pc = "invoice"
  /\ req' = [req EXCEPT ![r].invoice = NextPurchaseNumber, ![r].pc = "create"]
  /\ UNCHANGED <<product, sales, purchases, adjustments, stockLedger, calc, last, started>>

\* the purchase document of purchase lines 157-176; received is history: how
\* many times the items of the purchase have been added to the stock, and
\* receivedItems the items the first committed delivery added
PurchaseDoc(r) ==
  [invoice |-> req[r].invoice,
   items |-> req[r].items,
   status |-> "pending",
   paymentStatus |-> "pending",
   received |-> 0,
   receivedItems |-> <<>>]

\* A createPurchase that adds its items to the stock when the order is
\* created (the fault C12 must detect).
CreatePurchaseCreateReceives(r) ==
  /\ req[r].kind = "createPurchase" /\ req[r].pc = "create"
  /\ IF \E k \in 1..Len(purchases) : purchases[k].invoice = req[r].invoice
     THEN /\ purchases' = purchases
          /\ product' = product
          /\ last' = Response(r, "error", "duplicate invoiceNumber", 0, "none")
     ELSE /\ purchases' = Append(purchases, PurchaseDoc(r))
          /\ product' = [p \in Products |->
                           IF p = req[r].items[1].product
                           THEN [product[p] EXCEPT !.quantity = @ + req[r].items[1].quantity]
                           ELSE product[p]]
          /\ last' = Response(r, "ok", "", Len(purchases) + 1, "none")
  /\ req' = [req EXCEPT ![r] = IdleReq]
  /\ UNCHANGED <<sales, adjustments, stockLedger, calc, started>>

\* Purchase.create on a collection without the unique index on invoiceNumber
\* (the fault C21 must detect).
CreatePurchaseCreateNoIndex(r) ==
  /\ req[r].kind = "createPurchase" /\ req[r].pc = "create"
  /\ purchases' = Append(purchases, PurchaseDoc(r))
  /\ last' = Response(r, "ok", "", Len(purchases) + 1, "none")
  /\ req' = [req EXCEPT ![r] = IdleReq]
  /\ UNCHANGED <<product, sales, adjustments, stockLedger, calc, started>>

\* purchase lines 157-184: Purchase.create, refused by the unique index on
\* invoiceNumber when the number is taken
CreatePurchaseCreate(r) ==
  /\ req[r].kind = "createPurchase" /\ req[r].pc = "create"
  /\ IF \E k \in 1..Len(purchases) : purchases[k].invoice = req[r].invoice
     THEN /\ purchases' = purchases
          /\ last' = Response(r, "error", "duplicate invoiceNumber", 0, "none")
     ELSE /\ purchases' = Append(purchases, PurchaseDoc(r))
          /\ last' = Response(r, "ok", "", Len(purchases) + 1, "none")
  /\ req' = [req EXCEPT ![r] = IdleReq]
  /\ UNCHANGED <<product, sales, adjustments, stockLedger, calc, started>>

\* ----------------------------------------------------------- updatePurchase
PurchaseIds == 0..Len(purchases)

\* purchaseSchema.status enum, lines 105-109 of the purchase model
PurchaseStatuses == {"pending", "processing", "delivered", "cancelled"}

\* updateData.status: absent (""), or one of the enum
UpdStatuses == {""} \cup PurchaseStatuses

\* The delivery branch without the check of the stored status (the fault C9
\* must detect).
DeliversUnguarded(upd, status) == upd = "delivered"

\* The delivery branch taken for a pending purchase only (the fault C23 must
\* detect).
DeliversPendingOnly(upd, status) == upd = "delivered" /\ status = "pending"

\* purchase line 238
Delivers(upd, status) == upd = "delivered" /\ status # "delivered"

\* purchase lines 210-241: Purchase.findById, the guards and, for a
\* delivery, startSession and startTransaction.  hasItems: the body carries
\* items (so the financials are recalculated, line 229)
UpdatePurchaseStart(r) ==
  /\ Free(r)
  /\ \E id \in PurchaseIds, upd \in UpdStatuses, hasItems \in BOOLEAN :
       IF id = 0
       THEN /\ req' = [req EXCEPT ![r] = IdleReq]
            /\ last' = [Response(r, "error", "404 purchase", id, "none")
                          EXCEPT !.kind = "updatePurchase"]
       ELSE IF purchases[id].status = "cancelled"
       THEN /\ req' = [req EXCEPT ![r] = IdleReq]
            /\ last' = [Response(r, "error", "400 cancelled purchase", id, "none")
                          EXCEPT !.kind = "updatePurchase"]
       ELSE /\ req' = [req EXCEPT ![r] =
                         [IdleReq EXCEPT
                            !.kind = "updatePurchase", !.id = id, !.upd = upd,
                            !.hasItems = hasItems, !.i = 1,
                            !.status = purchases[id].status,
                            !.items = IF Delivers(upd, purchases[id].status)
                                      THEN purchases[id].items ELSE <<>>,
                            !.tx = IF Delivers(upd, purchases[id].status)
                                   THEN "active" ELSE "none",
                            !.pc = IF Delivers(upd, purchases[id].status)
                                   THEN "find"
                                   ELSE IF hasItems THEN "recalc" ELSE "update"]]
            /\ last' = last
  /\ started' = started + 1
  /\ UNCHANGED <<product, sales, purchases, adjustments, stockLedger, calc>>

\* purchase lines 246-250: Product.findById(item.product)
DeliverFind(r) ==
  /\ req[r].kind = "updatePurchase" /\ req[r].pc = "find"
  /\ req' = [req EXCEPT ![r].readQty = product[req[r].items[req[r].i].product].quantity,
                        ![r].pc = "save"]
  /\ UNCHANGED <<product, sales, purchases, adjustments, stockLedger, calc, last, started>>

\* purchase line 252: product.quantity += item.quantity
DeliverQuantity(read, qty) == read + qty

\* purchase lines 252-253: product.save({ session })
DeliverSave(r) ==
  /\ req[r].kind = "updatePurchase" /\ req[r].pc = "save"
  /\ LET it == req[r].items[req[r].i]
     IN req' = [req EXCEPT ![r] =
                  ProductSave(r, it.product, DeliverQuantity(req[r].readQty, it.quantity),
                              req[r].i < Len(req[r].items), "commit")]
  /\ UNCHANGED <<product, sales, purchases, adjustments, stockLedger, calc, last, started>>

\* purchase line 262: commitTransaction; the handler goes on to the
\* recalculation and to the update of the purchase document
DeliverCommit(r) ==
  /\ req[r].kind = "updatePurchase" /\ req[r].pc = "commit"
  /\ product' = CommitProducts(r)
  /\ sales' = Touched(Written(r), 0)
  /\ purchases' = [purchases EXCEPT
                     ![req[r].id].received = @ + 1,
                     ![req[r].id].receivedItems =
                        IF purchases[req[r].id].received = 0 THEN req[r].items ELSE @]
  /\ req' = After(r, [req[r] EXCEPT !.tx = "committed", !.wq = NoWrites, !.snap = FALSE,
                                    !.stale = {}, !.staleSales = {}, !.readQty = 0,
                                    !.items = <<>>, !.i = 1,
                                    !.pc = IF req[r].hasItems THEN "recalc" ELSE "update"],
                  Written(r), Written(r), {})
  /\ UNCHANGED <<adjustments, stockLedger, calc, last, started>>

\* purchase lines 276-303: one iteration of the loop over updateData.items
UpdatePurchaseRecalc(r) ==
  /\ req[r].kind = "updatePurchase" /\ req[r].pc = "recalc"
  /\ \E it \in Item :
       LET err == PurchaseItemError(it)
       IN IF err # ""
          THEN /\ req' = [req EXCEPT ![r] = IdleReq]
               /\ last' = Response(r, "error", err, req[r].id, req[r].tx)
          ELSE /\ \E more \in MoreItems(Append(req[r].items, it)) :
                    req' = [req EXCEPT ![r].items = Append(@, it), ![r].i = @ + 1,
                                       ![r].pc = IF more THEN "recalc" ELSE "update"]
               /\ last' = last
  /\ UNCHANGED <<product, sales, purchases, adjustments, stockLedger, calc, started>>

\* the purchase document after $set: updateData (purchase lines 336-340)
UpdatedPurchase(doc, upd, hasItems, items) ==
  [doc EXCEPT !.status = IF upd = "" THEN @ ELSE upd,
              !.items = IF hasItems THEN items ELSE @]

\* purchase lines 335-348: Purchase.findByIdAndUpdate, then the response
UpdatePurchaseWrite(r) ==
  /\ req[r].kind = "updatePurchase" /\ req[r].pc = "update"
  /\ purchases' = [purchases EXCEPT ![req[r].id] =
                     UpdatedPurchase(@, req[r].upd, req[r].hasItems, req[r].items)]
  /\ req' = [req EXCEPT ![r] = IdleReq]
  /\ last' = Response(r, "ok", "", req[r].id, req[r].tx)
  /\ UNCHANGED <<product, sales, adjustments, stockLedger, calc, started>>

\* ----------------------------------------------------------- cancelPurchase
\* cancelPurchase refusing only a purchase that is already cancelled (the
\* fault C11 must detect).
CancelPurchaseStartAnyOpen(r) ==
  /\ Free(r)
  /\ \E id \in PurchaseIds :
       IF id = 0
       THEN /\ req' = [req EXCEPT ![r] = IdleReq]
            /\ last' = [Response(r, "error", "404 purchase", id, "none")
                          EXCEPT !.kind = "cancelPurchase"]
       ELSE IF purchases[id].status = "cancelled"
       THEN /\ req' = [req EXCEPT ![r] = IdleReq]
            /\ last' = [Response(r, "error", "400 only pending", id, "none")
                          EXCEPT !.kind = "cancelPurchase"]
       ELSE /\ req' = [req EXCEPT ![r] =
                         [IdleReq EXCEPT !.kind = "cancelPurchase", !.pc = "save",
                                         !.id = id, !.status = purchases[id].status]]
            /\ last' = last
  /\ started' = started + 1
  /\ UNCHANGED <<product, sales, purchases, adjustments, stockLedger, calc>>

\* purchase lines 352-364: Purchase.findById and the guards
CancelPurchaseStart(r) ==
  /\ Free(r)
  /\ \E id \in PurchaseIds :
       IF id = 0
       THEN /\ req' = [req EXCEPT ![r] = IdleReq]
            /\ last' = [Response(r, "error", "404 purchase", id, "none")
                          EXCEPT !.kind = "cancelPurchase"]
       ELSE IF purchases[id].status # "pending"
       THEN /\ req' = [req EXCEPT ![r] = IdleReq]
            /\ last' = [Response(r, "error", "400 only pending", id, "none")
                          EXCEPT !.kind = "cancelPurchase"]
       ELSE /\ req' = [req EXCEPT ![r] =
                         [IdleReq EXCEPT !.kind = "cancelPurchase", !.pc = "save",
                                         !.id = id, !.status = purchases[id].status]]
            /\ last' = last
  /\ started' = started + 1
  /\ UNCHANGED <<product, sales, purchases, adjustments, stockLedger, calc>>

\* purchase lines 366-378: purchase.save() of status and paymentStatus
CancelPurchaseSave(r) ==
  /\ req[r].kind = "cancelPurchase" /\ req[r].pc = "save"
  /\ purchases' = [purchases EXCEPT ![req[r].id].status = "cancelled",
                                    ![req[r].id].paymentStatus = "cancelled"]
  /\ req' = [req EXCEPT ![r] = IdleReq]
  /\ last' = Response(r, "ok", "", req[r].id, "none")
  /\ UNCHANGED <<product, sales, adjustments, stockLedger, calc, started>>

\* ---------------------------------------------------- createStockAdjustment
\* a field the document does not have reads as undefined
Undefined == "undefined"

\* product.stockQuantity (part_003 lines 35, 55): productSchema defines
\* quantity, not stockQuantity, so the path reads undefined on every product
StockQuantity(p) ==
  IF "stockQuantity" \in DOMAIN product[p] THEN product[p].stockQuantity ELSE Undefined

\* a < b in JavaScript: false when either side is undefined
JsLess(a, b) == a # Undefined /\ b # Undefined /\ a < b

AdjustmentTypes == {"increase", "decrease", "other"}

\* the outcome of part_003 lines 16-26 for the body
AdjustmentBodyError(type, quantity) ==
  IF quantity = 0 THEN "400 all fields required"
  ELSE IF type \notin {"increase", "decrease"} THEN "400 adjustment type"
  ELSE IF quantity <= 0 THEN "400 quantity must be greater than 0"
  ELSE ""

\* part_003 lines 13-37: the body checks, Product.findById and the stock
\* check of a decrease
StockAdjustmentStart(r) ==
  /\ Free(r)
  /\ \E p \in Products, type \in AdjustmentTypes, quantity \in -1..MaxQty :
       LET err == AdjustmentBodyError(type, quantity)
       IN IF err # ""
          THEN /\ req' = [req EXCEPT ![r] = IdleReq]
               /\ last' = [Response(r, "error", err, 0, "none")
                             EXCEPT !.kind = "createStockAdjustment"]
          ELSE IF type = "decrease" /\ JsLess(StockQuantity(p), quantity)
          THEN /\ req' = [req EXCEPT ![r] = IdleReq]
               /\ last' = [Response(r, "error", "400 cannot decrease", 0, "none")
                             EXCEPT !.kind = "createStockAdjustment"]
          ELSE /\ req' = [req EXCEPT ![r] =
                            [IdleReq EXCEPT !.kind = "createStockAdjustment",
                                            !.pc = "create", !.tx = "active",
                                            !.upd = type,
                                            !.items = <<[product |-> p,
                                                         quantity |-> quantity]>>]]
               /\ last' = last
  /\ started' = started + 1
  /\ UNCHANGED <<product, sales, purchases, adjustments, stockLedger, calc>>

\* the paths of the document handed to StockAdjustment.create, part_003
\* lines 45-51
AdjustmentPaths == {"product", "adjustmentType", "quantity", "reason", "createdBy"}

\* the required paths of stockAdjustmentSchema that have no default
\* (stockAdjustment.model.js lines 5-57)
AdjustmentRequired == {"reference", "type", "reason", "createdBy"}

\* validation run by StockAdjustment.create
AdjustmentValid(paths) == AdjustmentRequired \subseteq paths

\* part_003 lines 45-51: StockAdjustment.create([...], { session }).  The
\* document never has reference and type, so validation always throws and
\* lines 53-79 (the product update and the commit) are never reached.
StockAdjustmentCreate(r) ==
  /\ req[r].kind = "createStockAdjustment" /\ req[r].pc = "create"
  /\ req' = [req EXCEPT ![r] =
               IF AdjustmentValid(AdjustmentPaths)
               THEN [@ EXCEPT !.snap = TRUE, !.pc = "update"]
               ELSE [@ EXCEPT !.pc = "abort", !.error = "ValidationError"]]
  /\ UNCHANGED <<product, sales, purchases, adjustments, stockLedger, calc, last, started>>

\* part_003 lines 81-86: abortTransaction, endSession, and a new
\* ApiError(500, error.message) in place of the error caught
StockAdjustmentAbort(r) ==
  /\ req[r].kind = "createStockAdjustment" /\ req[r].pc = "abort"
  /\ product' = AbortProducts(r)
  /\ req' = [req EXCEPT ![r] = IdleReq]
  /\ last' = Response(r, "error", "500 " \o req[r].error, 0, "aborted")
  /\ UNCHANGED <<sales, purchases, adjustments, stockLedger, calc, started>>

\* ------------------------------------------------------------ deleteProduct
\* supplier.controller.js lines 399-406: Product.findById
DeleteProductStart(r) ==
  /\ Free(r)
  /\ \E p \in Products :
       req' = [req EXCEPT ![r] =
                 [IdleReq EXCEPT !.kind = "deleteProduct", !.pc = "save",
                                 !.items = <<[product |-> p, quantity |-> 0]>>]]
  /\ started' = started + 1
  /\ UNCHANGED <<product, sales, purchases, adjustments, stockLedger, calc, last>>

\* supplier.controller.js lines 408-418: product.isActive = false;
\* product.save(), which sends $set of isActive alone
DeleteProductSave(r) ==
  /\ req[r].kind = "deleteProduct" /\ req[r].pc = "save"
  /\ LET p == req[r].items[1].product
     IN /\ ProductUnlocked(p)
        /\ product' = [product EXCEPT ![p].isActive = FALSE]
        /\ req' = After(r, IdleReq, {p}, {}, {})
  /\ last' = Response(r, "ok", "", 0, "none")
  /\ UNCHANGED <<sales, purchases, adjustments, stockLedger, calc, started>>

\* ------------------------------------------------------------ updateProduct
\* supplier.controller.js lines 346-354: Product.findById.  The body either
\* carries the key quantity with value q or does not (hasQuantity); its
\* other keys are not modelled.
UpdateProductStart(r) ==
  /\ Free(r)
  /\ \E p \in Products, hasQuantity \in BOOLEAN, q \in -1..MaxQty :
       /\ (~hasQuantity => q = 0)
       /\ req' = [req EXCEPT ![r] =
                    [IdleReq EXCEPT !.kind = "updateProduct", !.pc = "save",
                                    !.items = <<[product |-> p, quantity |-> q]>>,
                                    !.hasItems = hasQuantity,
                                    !.readQty = product[p].quantity]]
  /\ started' = started + 1
  /\ UNCHANGED <<product, sales, purchases, adjustments, stockLedger, calc, last>>

\* supplier.controller.js lines 380-395: product[key] = updateData[key] for
\* every key of the body, then product.save(): the validators run, and $set
\* of quantity is sent when the value differs from the one read
UpdateProductSave(r) ==
  /\ req[r].kind = "updateProduct" /\ req[r].pc = "save"
  /\ LET p == req[r].items[1].product
         q == req[r].items[1].quantity
     IN IF req[r].hasItems /\ ~QuantityValid(q)
        THEN /\ product' = product
             /\ sales' = sales
             /\ req' = [req EXCEPT ![r] = IdleReq]
             /\ last' = Response(r, "error", "ValidationError", 0, "none")
        ELSE IF req[r].hasItems /\ q # req[r].readQty
        THEN /\ ProductUnlocked(p)
             /\ product' = [product EXCEPT ![p].quantity = q]
             /\ sales' = Touched({p}, 0)
             /\ req' = After(r, IdleReq, {p}, {p}, {})
             /\ last' = Response(r, "ok", "", 0, "none")
        ELSE /\ product' = product
             /\ sales' = sales
             /\ req' = [req EXCEPT ![r] = IdleReq]
             /\ last' = Response(r, "ok", "", 0, "none")
  /\ UNCHANGED <<purchases, adjustments, stockLedger, calc, started>>

\* --------------------------------------------------------------- updateSale
\* filteredUpdateData.paymentStatus (sale lines 262-283): none (""), or the
\* status of the body or of the recalculation for paidAmount
SaleUpdStatuses == {"", "paid", "cancelled"}

\* An updateSale that refuses no sale (the fault C18 must detect).
UpdateSaleRefusesNone(status) == FALSE

\* sale line 256: sale.paymentStatus === "cancelled"
UpdateSaleRefuses(status) == status = "cancelled"

\* sale lines 245-284: Sale.findById, the guards and the filtered update
UpdateSaleStart(r) ==
  /\ Free(r)
  /\ \E id \in SaleIds, upd \in SaleUpdStatuses :
       IF id = 0
       THEN /\ req' = [req EXCEPT ![r] = IdleReq]
            /\ last' = [Response(r, "error", "404 sale", id, "none")
                          EXCEPT !.kind = "updateSale"]
       ELSE IF UpdateSaleRefuses(sales[id].paymentStatus)
       THEN /\ req' = [req EXCEPT ![r] = IdleReq]
            /\ last' = [Response(r, "error", "400 cancelled sale", id, "none")
                          EXCEPT !.kind = "updateSale"]
       ELSE /\ req' = [req EXCEPT ![r] =
                         [IdleReq EXCEPT !.kind = "updateSale", !.pc = "update",
                                         !.id = id, !.upd = upd,
                                         !.status = sales[id].paymentStatus]]
            /\ last' = last
  /\ started' = started + 1
  /\ UNCHANGED <<product, sales, purchases, adjustments, stockLedger, calc>>

\* sale lines 286-301: Sale.findByIdAndUpdate($set), then the response.  The
\* write waits for an open transaction that has written the sale.
UpdateSaleWrite(r) ==
  /\ req[r].kind = "updateSale" /\ req[r].pc = "update"
  /\ IF req[r].upd = ""
     THEN /\ sales' = sales
          /\ req' = [req EXCEPT ![r] = IdleReq]
     ELSE /\ \A o \in Slots : ~(req[o].tx = "active" /\ req[o].wsale = req[r].id)
          /\ sales' = [sales EXCEPT ![req[r].id].paymentStatus = req[r].upd]
          /\ req' = After(r, IdleReq, {}, {}, {req[r].id})
  /\ last' = Response(r, "ok", "", req[r].id, "none")
  /\ UNCHANGED <<product, purchases, adjustments, stockLedger, calc, started>>

\* catch blocks (sale lines 213-220, 348-355; purchase lines 263-270):
\* session.abortTransaction(), rethrow, endSession
AbortTransaction(r) ==
  /\ req[r].kind \in {"createSale", "cancelSale", "updatePurchase"}
  /\ req[r].pc = "abort"
  /\ product' = AbortProducts(r)
  /\ req' = [req EXCEPT ![r] = IdleReq]
  /\ last' = Response(r, "error", req[r].error, req[r].id, "aborted")
  /\ UNCHANGED <<sales, purchases, adjustments, stockLedger, calc, started>>

SaleNext(r) ==
  \/ CreateSaleStart(r)
  \/ CreateSaleFind(r)
  \/ CreateSaleSave(r)
  \/ CreateSaleInvoice(r)
  \/ CreateSaleCreate(r)
  \/ CreateSaleCommit(r)
  \/ CreateSalePopulate(r)
  \/ CancelSaleStart(r)
  \/ CancelSaleFind(r)
  \/ CancelSaleSave(r)
  \/ CancelSaleSaveSale(r)
  \/ CancelSaleCommit(r)

PurchaseNext(r) ==
  \/ CreatePurchaseStart(r)
  \/ CreatePurchaseFind(r)
  \/ CreatePurchaseInvoice(r)
  \/ CreatePurchaseCreate(r)
  \/ UpdatePurchaseStart(r)
  \/ DeliverFind(r)
  \/ DeliverSave(r)
  \/ DeliverCommit(r)
  \/ UpdatePurchaseRecalc(r)
  \/ UpdatePurchaseWrite(r)
  \/ CancelPurchaseStart(r)
  \/ CancelPurchaseSave(r)

OtherNext(r) ==
  \/ StockAdjustmentStart(r)
  \/ StockAdjustmentCreate(r)
  \/ StockAdjustmentAbort(r)
  \/ DeleteProductStart(r)
  \/ DeleteProductSave(r)
  \/ UpdateProductStart(r)
  \/ UpdateProductSave(r)
  \/ UpdateSaleStart(r)
  \/ UpdateSaleWrite(r)

\* every handler, on every connection slot
Next == \E r \in Slots : SaleNext(r) \/ PurchaseNext(r) \/ OtherNext(r) \/ AbortTransaction(r)

Spec == Init /\ [][Next]_vars

\* request r is past its arrival and runs the next step of its handler
Continues(r) ==
  /\ req[r].pc # "idle"
  /\ SaleNext(r) \/ PurchaseNext(r) \/ OtherNext(r) \/ AbortTransaction(r)

\* every handler, the event loop running each continuation whose awaited
\* operation can complete
SpecLive == Spec /\ \A r \in Slots : WF_vars(Continues(r))

\* the sale handlers alone
NextSale == \E r \in Slots : SaleNext(r) \/ AbortTransaction(r)

SpecSale == Init /\ [][NextSale]_vars

\* the derivation of the monetary fields alone, for one request drawn from
\* the bodies above
InitMoney ==
  /\ product = [p \in Products |-> [quantity |-> InitQty, isActive |-> TRUE]]
  /\ sales = <<>>
  /\ purchases = <<>>
  /\ adjustments = <<>>
  /\ stockLedger = <<>>
  /\ req = [r \in Slots |-> IdleReq]
  /\ last = NoResponse
  /\ started = 0
  /\ \/ \E b \in SaleBodies : calc = CalcRequest("createSale", b, NoDoc)
     \/ \E b \in PurchaseBodies : calc = CalcRequest("createPurchase", b, NoDoc)
     \/ \E b \in PurchaseUpdateBodies, d \in StoredPurchases :
          calc = CalcRequest("updatePurchase", b, d)
     \/ \E b \in SaleUpdateBodies, d \in StoredSales :
          calc = CalcRequest("updateSale", b, d)

NextMoney ==
  MoneyCreateSale \/ MoneyCreatePurchase \/ MoneyUpdatePurchase \/ MoneyUpdateSale

SpecMoney == InitMoney /\ [][NextMoney]_vars

\* updatePurchase, with the delivery
DeliveryNext(r) ==
  \/ UpdatePurchaseStart(r)
  \/ DeliverFind(r)
  \/ DeliverSave(r)
  \/ DeliverCommit(r)
  \/ UpdatePurchaseRecalc(r)
  \/ UpdatePurchaseWrite(r)

\* the handlers that move stock for an order: createSale, cancelSale and
\* updatePurchase
NextStock == \E r \in Slots : SaleNext(r) \/ DeliveryNext(r) \/ AbortTransaction(r)

SpecStock == Init /\ [][NextStock]_vars

\* the purchases a sequence of updates may find: one purchase of one unit of
\* p1, pending, or delivered with its unit in the stock
StoredOrders ==
  {<<[invoice |-> 1, items |-> <<[product |-> "p1", quantity |-> 1]>>,
      status |-> "pending", paymentStatus |-> "pending", received |-> 0,
      receivedItems |-> <<>>]>>,
   <<[invoice |-> 1, items |-> <<[product |-> "p1", quantity |-> 1]>>,
      status |-> "delivered", paymentStatus |-> "pending", received |-> 1,
      receivedItems |-> <<[product |-> "p1", quantity |-> 1]>>]>>}

InitSequential ==
  /\ product = [p \in Products |-> [quantity |-> InitQty, isActive |-> TRUE]]
  /\ sales = <<>>
  /\ purchases \in StoredOrders
  /\ adjustments = <<>>
  /\ stockLedger = <<>>
  /\ req = [r \in Slots |-> IdleReq]
  /\ last = NoResponse
  /\ started = 0
  /\ calc = NoCalc

\* updatePurchase and cancelPurchase called one after the other: a request
\* arrives when no other is being handled.  Without a concurrent request no
\* step of a delivery fails, so no transaction is aborted.
Alone(r) == \A o \in Slots \ {r} : req[o].pc = "idle"

NextSequential ==
  \E r \in Slots :
    \/ Alone(r) /\ UpdatePurchaseStart(r)
    \/ Alone(r) /\ DeliverFind(r)
    \/ Alone(r) /\ DeliverSave(r)
    \/ Alone(r) /\ DeliverCommit(r)
    \/ Alone(r) /\ UpdatePurchaseRecalc(r)
    \/ Alone(r) /\ UpdatePurchaseWrite(r)
    \/ Alone(r) /\ CancelPurchaseStart(r)
    \/ Alone(r) /\ CancelPurchaseSave(r)

SpecSequential == InitSequential /\ [][NextSequential]_vars

\* the purchase handlers alone
NextPurchase == \E r \in Slots : PurchaseNext(r) \/ AbortTransaction(r)

SpecPurchase == Init /\ [][NextPurchase]_vars

\* ------------------------------------------------------------------ claims
\* the committed quantity of product p
Qty(p) == product[p].quantity

\* request r takes a step (every step of a handler moves its pc)
Steps(r) == req'[r].pc # req[r].pc

\* request r sends its response in this step
Ends(r) == req[r].pc # "idle" /\ req'[r].pc = "idle"

NoSaleCancelled == \A k \in 1..Len(sales) : sales[k].paymentStatus # "cancelled"

\* sale k of this run is one line asking for all the stock of p
FullStockSale(k, p) ==
  /\ sales[k].arrival[p] >= 1
  /\ sales[k].items = <<[product |-> p, quantity |-> sales[k].arrival[p]]>>

\* C1: of two createSale requests that each ask for the whole stock of the
\* same product, at most one commits.  With the sale handlers alone and no
\* sale cancelled the stock never grows, so two committed sales that each
\* took the whole stock n >= 1 their request found can only have run
\* concurrently.
C1_ExactlyOneCommits ==
  \A p \in Products : \A j, k \in 1..Len(sales) :
    (j < k /\ NoSaleCancelled /\ FullStockSale(j, p) /\ FullStockSale(k, p))
      => sales[j].arrival[p] # sales[k].arrival[p]

\* the errors createSale raises for a line item (lines 117-129)
SaleItemErrors == {"400 item fields", "404 product", "400 not enough stock"}

\* C2: a createSale that fails on a line item has aborted its transaction,
\* has persisted no sale, and leaves every product of the items it had
\* already processed (unless another operation committed that product's
\* quantity meanwhile) with the quantity it had when the request arrived.
C2_FailedSaleLeavesNoTrace ==
  [][\A r \in Slots :
       (req[r].kind = "createSale" /\ Ends(r) /\ last'.error \in SaleItemErrors)
         => /\ last'.tx = "aborted"
            /\ Len(sales') = Len(sales)
            /\ \A p \in ItemProducts(req[r].items) \ req[r].disturbed :
                 product'[p].quantity = req[r].pre[p]]_vars

\* a createSale has failed on a later item after its first item was saved
C2_Witness ==
  /\ last.kind = "createSale" /\ last.result = "error" /\ last.tx = "aborted"
  /\ last.error \in SaleItemErrors
  /\ last.items >= 1
  /\ req[last.slot].pc = "idle"

\* C3: no committed quantity is ever negative, and a createSale or a
\* createStockAdjustment that is rejected has changed no quantity: the only
\* step of theirs that changes one is the commit.
C3_NonNegativeRejectedInFull ==
  [][/\ \A p \in Products : product'[p].quantity >= 0
     /\ \A r \in Slots :
          (req[r].kind \in {"createSale", "createStockAdjustment"} /\ Steps(r)
           /\ req[r].pc # "commit")
            => Quantities' = Quantities]_vars

\* a sale was rejected for lack of stock while the stock is used up
C3_Witness ==
  /\ last.kind = "createSale" /\ last.error = "400 not enough stock"
  /\ last.tx = "aborted"
  /\ \E p \in Products : Qty(p) = 0

\* C4: when the cancelSale of a sale commits, every product of the sale whose
\* quantity no other operation has committed since the createSale arrived
\* is back at the quantity it had when the createSale arrived.
C4_RoundTrip ==
  [][\A r \in Slots :
       (req[r].kind = "cancelSale" /\ req[r].pc = "commit" /\ Ends(r)
        /\ sales[req[r].id].paymentStatus # "cancelled")
         => \A p \in ItemProducts(sales[req[r].id].items) \ sales[req[r].id].disturbed :
              sales[req[r].id].arrival[p] # -1
                => product'[p].quantity = sales[req[r].id].arrival[p]]_vars

\* a sale of this run has been cancelled with nothing else touching its product
C4_Witness ==
  \E k \in 1..Len(sales) : \E p \in ItemProducts(sales[k].items) :
    /\ sales[k].paymentStatus = "cancelled"
    /\ sales[k].arrival[p] >= 1 /\ p \notin sales[k].disturbed
    /\ Qty(p) = sales[k].arrival[p]

\* C5: every step that changes a committed quantity appends to the stock
\* ledger.
C5_LedgerEntryPerMutation ==
  [][\A p \in Products :
       product'[p].quantity # product[p].quantity
         => Len(stockLedger') > Len(stockLedger)]_vars

\* C6: the quantities of a sale are added back to the stock by at most one
\* cancelSale.
C6_RestockedAtMostOnce == \A k \in 1..Len(sales) : sales[k].restocked <= 1

RECURSIVE LineQuantity(_, _)
\* the sum of the quantities of the lines of items that are for product p
LineQuantity(items, p) ==
  IF Len(items) = 0 THEN 0
  ELSE (IF items[1].product = p THEN items[1].quantity ELSE 0)
       + LineQuantity(Tail(items), p)

\* C7: a cancelSale of a cancelled sale is refused and changes nothing; the
\* commit of a cancelSale adds, for every product, the quantities of all the
\* lines of the sale to the committed quantity and marks the sale cancelled.
C7_CancelAddsEveryLine ==
  [][\A r \in Slots :
       /\ (req[r].pc = "idle" /\ req'[r].kind = "cancelSale")
            => sales[req'[r].id].paymentStatus # "cancelled"
       /\ (req[r].kind = "cancelSale" /\ req[r].pc = "commit" /\ Ends(r))
            => /\ sales'[req[r].id].paymentStatus = "cancelled"
               /\ \A p \in Products :
                    product'[p].quantity =
                      product[p].quantity + LineQuantity(sales[req[r].id].items, p)]_vars

\* C8: a delivery is all or nothing.  When an updatePurchase that took the
\* delivery branch ends, either its transaction has committed the stock and
\* the stored status of the purchase is delivered, or nothing was committed
\* and the stored status is the one the request found.
C8_DeliveryAllOrNothing ==
  [][\A r \in Slots :
       (req[r].kind = "updatePurchase" /\ Ends(r)
        /\ Delivers(req[r].upd, req[r].status))
         => IF last'.tx = "committed"
            THEN purchases'[req[r].id].status = "delivered"
            ELSE /\ purchases'[req[r].id].status = req[r].status
                 /\ Quantities' = Quantities]_vars

\* C9: an updatePurchase never gets past its guards on a purchase stored as
\* cancelled, and its refusal changes nothing; an updatePurchase with status
\* delivered that found the purchase stored as delivered opens no
\* transaction and none of its steps changes a product.
C9_DeliveryOnlyFromOpen ==
  [][/\ \A r \in Slots :
          (req[r].pc = "idle" /\ req'[r].kind = "updatePurchase")
            => /\ purchases[req'[r].id].status # "cancelled"
               /\ req'[r].status = purchases[req'[r].id].status
     /\ (last' # last /\ last'.error = "400 cancelled purchase")
          => product' = product /\ purchases' = purchases
     /\ \A r \in Slots :
          (req[r].kind = "updatePurchase" /\ req[r].upd = "delivered"
           /\ req[r].status = "delivered" /\ Steps(r))
            => product' = product /\ req[r].tx = "none"]_vars

\* an updatePurchase with status delivered is past the guards on a purchase
\* whose items were received and that is stored as delivered
C9_Witness ==
  \E r \in Slots :
    /\ req[r].kind = "updatePurchase" /\ req[r].upd = "delivered"
    /\ req[r].status = "delivered" /\ req[r].pc \in {"recalc", "update"}
    /\ purchases[req[r].id].status = "delivered"
    /\ purchases[req[r].id].received = 1

\* C10: no purchase whose items have been added to the stock is stored as
\* cancelled.
C10_DeliveredNeverCancelled ==
  \A k \in 1..Len(purchases) :
    purchases[k].received >= 1 => purchases[k].status # "cancelled"

\* request r arrives in this step and its handler goes on to a database step
Arrives(r, kind) == req[r].pc = "idle" /\ req'[r].pc # "idle" /\ req'[r].kind = kind

\* C11: a cancelPurchase gets past its guards only on a purchase stored as
\* pending (on any other it is refused at once), and the refusal changes no
\* purchase and no product.
C11_CancelPurchaseOnlyPending ==
  [][/\ \A r \in Slots :
          Arrives(r, "cancelPurchase") => purchases[req'[r].id].status = "pending"
     /\ (last' # last /\ last'.kind = "cancelPurchase" /\ last'.result = "error")
          => purchases' = purchases /\ product' = product]_vars

\* a cancelPurchase of a purchase that is processing, delivered or cancelled
\* has been refused
C11_Witness ==
  /\ last.kind = "cancelPurchase" /\ last.error = "400 only pending"
  /\ last.id \in 1..Len(purchases)
  /\ purchases[last.id].status \in {"processing", "delivered", "cancelled"}

\* C12: no step of createPurchase or cancelPurchase changes a product; the
\* save of a cancelPurchase stores status and paymentStatus cancelled.
C12_PurchaseOrderLeavesStock ==
  [][/\ \A r \in Slots :
          (Steps(r) /\ (req[r].kind \in {"createPurchase", "cancelPurchase"}
                        \/ req'[r].kind \in {"createPurchase", "cancelPurchase"}))
            => product' = product
     /\ (last' # last /\ last'.kind \in {"createPurchase", "cancelPurchase"})
          => product' = product
     /\ \A r \in Slots :
          (req[r].kind = "cancelPurchase" /\ Ends(r))
            => /\ last'.result = "ok"
               /\ purchases'[req[r].id].status = "cancelled"
               /\ purchases'[req[r].id].paymentStatus = "cancelled"]_vars

\* a pending purchase has been cancelled and the stock is as at the start
C12_Witness ==
  /\ last.kind = "cancelPurchase" /\ last.result = "ok"
  /\ purchases[last.id].status = "cancelled"
  /\ purchases[last.id].paymentStatus = "cancelled"
  /\ \A p \in Products : Qty(p) = InitQty

\* C13: a committed quantity changes only in a step of createSale,
\* cancelSale, updatePurchase (the delivery) or createStockAdjustment.
C13_QuantityChangedOnlyByStockHandlers ==
  [][Quantities' # Quantities
       => \E r \in Slots :
            /\ Steps(r)
            /\ req[r].kind \in {"createSale", "cancelSale", "updatePurchase",
                                "createStockAdjustment"}]_vars

RECURSIVE SumOfLines(_, _)
\* the sum of quantity * unitPrice over the first n lines of items
SumOfLines(items, n) ==
  IF n = 0 THEN 0
  ELSE SumOfLines(items, n - 1) + items[n].quantity * items[n].unitPrice

\* the payment fields d.dueAmount, d.paymentStatus (and change, the change
\* due) are those of the Money Calculator for d.totalAmount and the payment
\* paid
PaymentFollowsCalculator(d, paid, change) ==
  IF paid >= d.totalAmount
  THEN d.dueAmount = 0 /\ change = paid - d.totalAmount /\ d.paymentStatus = "paid"
  ELSE IF paid > 0
  THEN d.dueAmount = d.totalAmount - paid /\ change = 0 /\ d.paymentStatus = "partial"
  ELSE d.dueAmount = d.totalAmount /\ change = 0 /\ d.paymentStatus = "pending"

\* C14: the sale stored by a createSale whose body carries no paymentStatus
\* has subTotal = sum of quantity * unitPrice, taxAmount = subTotal *
\* taxRate / 100, totalAmount = subTotal + taxAmount - discountAmount, and
\* dueAmount, changeAmount and paymentStatus as the Money Calculator gives
\* them for paidAmount.
C14_SaleEqualsMoneyCalculator ==
  (calc.op = "createSale" /\ calc.pc = "done" /\ calc.error = ""
   /\ calc.body.paymentStatus = "")
    => LET b == calc.body
           d == calc.doc
       IN /\ d.subTotal = SumOfLines(b.items, Len(b.items))
          /\ d.taxAmount * 100 = d.subTotal * b.taxRate
          /\ d.totalAmount = d.subTotal + d.taxAmount - b.discountAmount
          /\ d.paidAmount = b.paidAmount
          /\ PaymentFollowsCalculator(d, b.paidAmount, d.changeAmount)

\* the sale of items totalling 100 with tax 10, discount 5 and 50 paid is
\* stored as total 105, due 55, partial
C14_Witness ==
  /\ calc.op = "createSale" /\ calc.pc = "done" /\ calc.error = ""
  /\ calc.body.paymentStatus = "" /\ calc.body.paidAmount = 50
  /\ calc.doc.subTotal = 100 /\ calc.doc.taxAmount = 10
  /\ calc.doc.totalAmount = 105 /\ calc.doc.dueAmount = 55
  /\ calc.doc.paymentStatus = "partial"

\* C15: a purchase stored by createPurchase (no paymentStatus in the body),
\* or by an updatePurchase that recalculates, has taxAmount = subTotal *
\* taxRate / 100, totalAmount = subTotal + taxAmount + shippingCost -
\* discountAmount, and dueAmount and paymentStatus as the Money Calculator
\* gives them for paidAmount.
C15_PurchaseFollowsMoneyCalculator ==
  (/\ calc.pc = "done" /\ calc.error = ""
   /\ \/ calc.op = "createPurchase" /\ calc.body.paymentStatus = ""
      \/ calc.op = "updatePurchase" /\ NeedsRecalculation(calc.body))
    => LET d == calc.doc
       IN /\ d.taxAmount * 100 = d.subTotal * d.taxRate
          /\ d.totalAmount = d.subTotal + d.taxAmount + d.shippingCost - d.discountAmount
          /\ PaymentFollowsCalculator(d, d.paidAmount, 0)

\* the value a request gives the field key of the order: the body's, or for
\* an update without the key the stored one
Requested(key) ==
  IF calc.op \in {"createSale", "createPurchase"} \/ key \in calc.body.has
  THEN calc.body[key] ELSE calc.stored[key]

\* the request asks for a negative tax, discount, shipping or payment, or
\* for a discount larger than subTotal + tax (+ shipping)
AsksNegativeMoney ==
  LET items == Requested("items")
      subTotal == SumOfLines(items, Len(items))
      shipping == IF calc.op \in {"createPurchase", "updatePurchase"}
                  THEN Requested("shippingCost") ELSE 0
  IN IF calc.op = "updateSale" THEN Requested("paidAmount") < 0
     ELSE \/ Requested("taxRate") < 0 \/ Requested("discountAmount") < 0
          \/ shipping < 0 \/ Requested("paidAmount") < 0 \/ subTotal < 0
          \/ subTotal * 100 + subTotal * Requested("taxRate") + shipping * 100
               < Requested("discountAmount") * 100

\* C16: every stored sale and purchase has subTotal, taxAmount,
\* discountAmount, totalAmount, paidAmount and dueAmount (changeAmount for a
\* sale, shippingCost for a purchase) >= 0, and a create or update that asks
\* for a negative amount is answered with an error and stores no document.
C16_MoneyNeverNegative ==
  calc.pc = "done"
    => /\ calc.error = ""
            => /\ calc.doc.subTotal >= 0 /\ calc.doc.taxAmount >= 0
               /\ calc.doc.discountAmount >= 0 /\ calc.doc.totalAmount >= 0
               /\ calc.doc.paidAmount >= 0 /\ calc.doc.dueAmount >= 0
               /\ calc.op \in {"createSale", "updateSale"}
                    => calc.doc.changeAmount >= 0
               /\ calc.op \in {"createPurchase", "updatePurchase"}
                    => calc.doc.shippingCost >= 0
       /\ AsksNegativeMoney => calc.error # "" /\ calc.doc = NoDoc

\* a purchase whose discount exceeds subTotal + tax + shipping has been
\* refused by the validators
C16_Witness ==
  /\ calc.op = "createPurchase" /\ calc.pc = "done"
  /\ calc.error = "ValidationError" /\ calc.doc = NoDoc
  /\ calc.body.discountAmount = 200 /\ calc.body.taxRate >= 0
  /\ calc.body.shippingCost >= 0 /\ calc.body.paidAmount = 0
  /\ \A k \in 1..Len(calc.body.items) :
       calc.body.items[k].quantity >= 1 /\ calc.body.items[k].unitPrice > 0

\* the quantity-on-hand a stock adjustment of type and n leaves of quantity q
Adjusted(q, type, n) == IF type = "increase" THEN q + n ELSE q - n

\* C17: a createStockAdjustment that passed the body checks (type increase
\* or decrease, n > 0) and does not decrease below zero ends successfully,
\* with the product's quantity changed by +n (resp. -n) and the adjustment
\* record persisted in the same step; any other leaves both unchanged.
C17_AdjustmentMovesStock ==
  [][\A r \in Slots :
       req[r].kind = "createStockAdjustment" /\ Ends(r)
         => LET p == req[r].items[1].product
                n == req[r].items[1].quantity
            IN IF req[r].upd = "increase" \/ n <= Qty(p)
               THEN /\ last'.result = "ok"
                    /\ Qty(p)' = Adjusted(Qty(p), req[r].upd, n)
                    /\ Len(adjustments') = Len(adjustments) + 1
               ELSE /\ last'.result = "error"
                    /\ product' = product /\ adjustments' = adjustments]_vars

\* the order of number id that a request of the given kind addresses is
\* stored as cancelled
StoredCancelled(kind, id) ==
  IF kind \in {"updateSale", "cancelSale"}
  THEN id \in 1..Len(sales) /\ sales[id].paymentStatus = "cancelled"
  ELSE id \in 1..Len(purchases) /\ purchases[id].status = "cancelled"

OrderHandlers == {"updateSale", "cancelSale", "updatePurchase", "cancelPurchase"}

\* C18: an updateSale, cancelSale, updatePurchase or cancelPurchase that
\* arrives for an order stored as cancelled never gets past its guards: it
\* is answered with an error in the same step, and no sale, no purchase and
\* no product changes.
C18_CancelledIsFinal ==
  [][/\ \A r \in Slots : \A kind \in OrderHandlers :
          Arrives(r, kind) => ~StoredCancelled(kind, req'[r].id)
     /\ (/\ last' # last /\ last'.kind \in OrderHandlers
         /\ req[last'.slot].pc = "idle"
         /\ StoredCancelled(last'.kind, last'.id))
          => /\ last'.result = "error"
             /\ sales' = sales /\ purchases' = purchases /\ product' = product]_vars

\* an updateSale of a cancelled sale has been refused
C18_Witness ==
  /\ last.kind = "updateSale" /\ last.error = "400 cancelled sale"
  /\ StoredCancelled("updateSale", last.id)

\* C19: an error raised inside the transaction of createSale, cancelSale,
\* the delivery of updatePurchase or createStockAdjustment reaches the caller
\* as the error that was raised, after the transaction has been aborted and
\* with no product changed.
C19_ErrorsPropagateUnchanged ==
  [][\A r \in Slots :
       (/\ req[r].kind \in {"createSale", "cancelSale", "updatePurchase",
                            "createStockAdjustment"}
        /\ req[r].pc = "abort" /\ Ends(r))
         => /\ last'.result = "error" /\ last'.error = req[r].error
            /\ last'.tx = "aborted"
            /\ product' = product]_vars

\* the numeric fields of every line item of the body are acceptable
ItemNumbersAcceptable ==
  \A k \in 1..Len(calc.body.items) :
     calc.body.items[k].quantity > 0 /\ calc.body.items[k].unitPrice >= 0

\* C20: createSale and createPurchase refuse a body for its line items, as
\* an invalid argument (400), exactly when some item has quantity <= 0 or
\* unitPrice < 0; an item with unitPrice = 0 is accepted.
C20_ItemAcceptedIffNumbersValid ==
  (calc.op \in {"createSale", "createPurchase"} /\ calc.pc = "done")
    => (calc.error = "400 item fields" <=> ~ItemNumbersAcceptable)

\* no two documents of the sequence docs have the same invoice number
InvoicesDistinct(docs) ==
  \A j, k \in 1..Len(docs) : docs[j].invoice = docs[k].invoice => j = k

\* C21: no two committed sales and no two committed purchases share an
\* invoice number; a create request whose number is taken ends with the
\* duplicate-key error and stores no order, and the createSale that loses
\* leaves every product as it was.
C21_InvoiceNumbersUnique ==
  [][/\ InvoicesDistinct(sales') /\ InvoicesDistinct(purchases')
     /\ \A r \in Slots :
          (/\ req[r].kind \in {"createSale", "createPurchase"} /\ Ends(r)
           /\ \/ \E k \in 1..Len(sales) :
                   req[r].kind = "createSale" /\ req[r].pc \in {"create", "abort", "commit"}
                   /\ sales[k].invoice = req[r].invoice
              \/ \E k \in 1..Len(purchases) :
                   req[r].kind = "createPurchase" /\ req[r].pc = "create"
                   /\ purchases[k].invoice = req[r].invoice)
            => /\ last'.error = "duplicate invoiceNumber"
               /\ sales' = sales /\ purchases' = purchases
               /\ product' = product]_vars

\* two createSale requests derived the same number: one is committed, the
\* other has been aborted with the duplicate-key error
C21_Witness ==
  /\ last.kind = "createSale" /\ last.error = "duplicate invoiceNumber"
  /\ last.tx = "aborted"
  /\ \E k \in 1..Len(sales) : sales[k].arrival # Unknown

\* the handlers that open a transaction
TransactionHandlers ==
  {"createSale", "cancelSale", "updatePurchase", "createStockAdjustment"}

\* every request that has opened a transaction sends its response
TransactionsEnd == \A r \in Slots : (req[r].tx = "active") ~> (req[r].pc = "idle")

\* C22: every request that has opened a transaction ends, with the
\* transaction either committed or aborted, and abortTransaction is never
\* called on a transaction that has been committed.
C22_OneTerminalState ==
  /\ TransactionsEnd
  /\ [][\A r \in Slots :
          (req[r].kind \in TransactionHandlers /\ req[r].tx # "none" /\ Ends(r))
            => /\ last'.tx \in {"committed", "aborted"}
               /\ last'.error # AbortAfterCommit]_vars

\* C23: the status guard of a delivery looks at the stored status alone: an
\* updatePurchase with status delivered that finds the purchase stored as
\* pending or processing opens a transaction for the purchase's items, also
\* while another delivery of the same purchase is under way; and the commit
\* of each delivery makes its saved quantities the committed ones and counts
\* as one more reception of the purchase.
C23_ConcurrentDeliveriesBothPass ==
  [][\A r \in Slots :
       /\ (/\ Arrives(r, "updatePurchase") /\ req'[r].upd = "delivered"
           /\ purchases[req'[r].id].status \in {"pending", "processing"})
            => /\ req'[r].tx = "active" /\ req'[r].pc = "find"
               /\ req'[r].items = purchases[req'[r].id].items
       /\ (req[r].kind = "updatePurchase" /\ req[r].pc = "commit" /\ Steps(r))
            => /\ purchases'[req[r].id].received = purchases[req[r].id].received + 1
               /\ \A p \in Written(r) : product'[p].quantity = req[r].wq[p]]_vars

\* two deliveries of the same purchase passed the guard before either had
\* stored status delivered, and both have committed: its quantities are
\* in the stock twice
C23_Witness ==
  \E k \in 1..Len(purchases) :
    /\ purchases[k].received = 2
    /\ \A p \in Products :
         Qty(p) = InitQty + 2 * LineQuantity(purchases[k].items, p)
    /\ \E p \in Products : LineQuantity(purchases[k].items, p) >= 1

RECURSIVE SoldQuantity(_, _)
\* the quantity of p in the first n sales, those cancelled left out
SoldQuantity(n, p) ==
  IF n = 0 THEN 0
  ELSE (IF sales[n].paymentStatus = "cancelled" THEN 0
        ELSE LineQuantity(sales[n].items, p))
       + SoldQuantity(n - 1, p)

RECURSIVE DeliveredQuantity(_, _)
\* the quantity of p in the first n purchases, for those a delivery of
\* which has committed
DeliveredQuantity(n, p) ==
  IF n = 0 THEN 0
  ELSE LineQuantity(purchases[n].receivedItems, p) + DeliveredQuantity(n - 1, p)

\* the quantity of p before every sale: the quantity at the start, with the
\* sales made before the start put back
InitialQuantity(p) ==
  InitQty + (IF Len(sales) >= 1 /\ sales[1].arrival = Unknown
             THEN LineQuantity(sales[1].items, p) ELSE 0)

\* C24: with createSale, cancelSale and updatePurchase alone, the committed
\* quantity of every product is its initial quantity, plus its quantities in
\* the purchases a delivery of which has committed, minus its quantities in
\* the committed sales that are not cancelled.
C24_StockConservation ==
  \A p \in Products :
    Qty(p) = InitialQuantity(p) + DeliveredQuantity(Len(purchases), p)
             - SoldQuantity(Len(sales), p)

\* C25: the commit of a createSale leaves every product of the sale (that
\* no other operation has committed since the request arrived) at the
\* quantity the request found less the sum of the quantities of all the
\* lines for that product, and that sum is not more than the quantity found.
C25_SaleTakesSumOfLines ==
  [][\A r \in Slots :
       (req[r].kind = "createSale" /\ req[r].pc = "commit" /\ Steps(r))
         => \A p \in ItemProducts(req[r].items) \ req[r].disturbed :
              /\ LineQuantity(req[r].items, p) <= req[r].pre[p]
              /\ product'[p].quantity = req[r].pre[p] - LineQuantity(req[r].items, p)]_vars

\* C26: every sale stored as cancelled has had its quantities added back to
\* the stock by exactly one committed cancellation.
C26_CancelledMeansRestockedOnce ==
  \A k \in 1..Len(sales) :
    sales[k].paymentStatus = "cancelled" => sales[k].restocked = 1

\* C27: over updatePurchase and cancelPurchase calls made one after the
\* other, the items of a purchase are added to the stock at most once.
C27_ReceivedAtMostOncePerPurchase ==
  \A k \in 1..Len(purchases) :
    /\ purchases[k].received <= 1
    /\ \A p \in Products :
         Qty(p) <= InitQty + LineQuantity(purchases[k].receivedItems, p)

\* C28: when a createSale answers with an error its transaction has not been
\* committed (no sale is stored for it, and every product of its items that
\* no other operation has committed meanwhile has the quantity the request
\* found); when it answers success the transaction has been committed and
\* the sale is stored with the items of the request.
C28_ResponseMatchesTransaction ==
  [][\A r \in Slots :
       (req[r].kind = "createSale" /\ Ends(r))
         => IF last'.result = "error"
            THEN /\ req[r].tx # "committed"
                 /\ \A p \in ItemProducts(req[r].items) \ req[r].disturbed :
                      product'[p].quantity = req[r].pre[p]
            ELSE /\ req[r].tx = "committed"
                 /\ last'.id \in 1..Len(sales')
                 /\ sales'[last'.id].items = req[r].items]_vars

\* the payment status of the sale document d agrees with its amounts
StatusAgreesWithAmounts(d) ==
  /\ d.paymentStatus = "paid" => d.dueAmount = 0 /\ d.paidAmount >= d.totalAmount
  /\ d.paymentStatus = "partial" => 0 < d.paidAmount /\ d.paidAmount < d.totalAmount
  /\ d.paymentStatus = "pending" => d.paidAmount = 0

\* C29: the payment status of every sale that createSale or updateSale
\* stores, and that is not cancelled, agrees with its amounts.
C29_SaleStatusAgreesWithAmounts ==
  (/\ calc.op \in {"createSale", "updateSale"} /\ calc.pc = "done"
   /\ calc.error = "" /\ calc.doc.paymentStatus # "cancelled")
    => StatusAgreesWithAmounts(calc.doc)

Max(a, b) == IF a >= b THEN a ELSE b

\* C30: an updateSale with paidAmount p on a sale of total T stores
\* dueAmount max(0, T - p), changeAmount max(0, p - T) and the status paid
\* for p >= T, partial for 0 < p < T, pending for p = 0, whatever
\* paymentStatus the body carries; and no updateSale changes the items,
\* subTotal, taxAmount, discountAmount or totalAmount of the sale, or any
\* product.
C30_UpdateSaleRecalculatesPayment ==
  [][(calc.op = "updateSale" /\ calc.pc = "request" /\ calc'.pc = "done")
       => /\ product' = product
          /\ calc'.error = ""
               => LET d == calc'.doc
                      T == calc.stored.totalAmount
                      paid == calc.body.paidAmount
                  IN /\ "paidAmount" \in calc.body.has
                          => /\ d.paidAmount = paid
                             /\ d.dueAmount = Max(0, T - paid)
                             /\ d.changeAmount = Max(0, paid - T)
                             /\ d.paymentStatus =
                                  IF paid >= T THEN "paid"
                                  ELSE IF paid > 0 THEN "partial" ELSE "pending"
                     /\ d.items = calc.stored.items
                     /\ d.subTotal = calc.stored.subTotal
                     /\ d.taxAmount = calc.stored.taxAmount
                     /\ d.discountAmount = calc.stored.discountAmount
                     /\ d.totalAmount = T]_vars

\* an updateSale that paid part of the total and sent paymentStatus paid
\* with it has stored the sale as partial
C30_Witness ==
  /\ calc.op = "updateSale" /\ calc.pc = "done" /\ calc.error = ""
  /\ calc.body.has = {"paidAmount", "paymentStatus"}
  /\ calc.body.paymentStatus = "paid"
  /\ 0 < calc.body.paidAmount /\ calc.body.paidAmount < calc.stored.totalAmount
  /\ calc.doc.paymentStatus = "partial"
  /\ calc.doc.dueAmount = calc.stored.totalAmount - calc.body.paidAmount
====
